---------------------------- MODULE Spec2Model ----------------------------
(***************************************************************************)
(* A model of the IFC processing backend: the level classifier, element    *)
(* key derivation and quantity table of backend/ifc_processor.py, the      *)
(* bounding-box builder and geometry extraction of                         *)
(* backend/geometry_extractor.py, and the merge stage and the upload       *)
(* handler of backend/main.py.                                             *)
(*                                                                         *)
(* Conventions.                                                            *)
(*  - A Python str is a sequence of tokens; "_", ":", "-", "." and each    *)
(*    decimal digit are tokens of their own, so that split('_'),           *)
(*    startswith, endswith and int() are computed, not assumed.            *)
(*  - A Python dict is a sequence of [k, v] entries in insertion order.    *)
(*  - Elevations and Z coordinates are integers in units of 0.1 m.         *)
(*  - Property values are integers in thousandths.                         *)
(*  - Vertex coordinates are integers in units of 0.25 mm, so that the     *)
(*    1 mm threshold is 4 and extents below it exist.                      *)
(***************************************************************************)
EXTENDS Integers, Sequences, FiniteSets, TLC

VARIABLES
    source,             \* the opened IFC file: [storeys, products]
    levels_data,        \* IFCProcessor.levels_data
    quantity_table,     \* IFCProcessor.quantity_table
    pc,                 \* position of the running operation
    idx,                \* index of the next element of relevant_elements
    processed_elements, \* process_elements' local list
    result,             \* what process_ifc_file returned (after the merge: the response data)
    prev_result,        \* the result of the previous run over the same source
    runs,               \* number of runs started over the source
    calls,              \* the accumulate calls made so far, <<key, level>> each
    table_out,          \* what generate_quantity_table_data returned
    element,            \* the element handed to _get_element_level
    level_ret,          \* what _get_element_level returned
    element_type,       \* _create_element_key's first argument
    dimensions,         \* _create_element_key's second argument
    element_key,        \* what _create_element_key returned
    verts,              \* shape.geometry.verts, a flat sequence
    bbox,               \* what _calculate_bounding_box returned
    valid,              \* what _is_valid_geometry said of bbox
    files,              \* the upload folder: path -> [exists, inode, data]
    requests,           \* the upload requests in flight, one per slot
    loop,               \* the slot whose handler runs on the event loop, or 0
    uploads             \* number of uploads received so far

vars == <<source, levels_data, quantity_table, pc, idx, processed_elements,
          result, prev_result, runs, calls, table_out, element, level_ret,
          element_type, dimensions, element_key, verts, bbox, valid,
          files, requests, loop, uploads>>

pipeVars == <<source, pc, idx, processed_elements, result, prev_result, runs>>
aggVars == <<calls, table_out>>
clsVars == <<element, level_ret>>
keyVars == <<element_type, dimensions, element_key>>
boxVars == <<verts, bbox, valid>>
upVars == <<files, requests, loop, uploads>>
procVars == <<levels_data, quantity_table, pipeVars, aggVars, clsVars, keyVars,
              boxVars>>

-----------------------------------------------------------------------------
(* Bounds of the model *)

MaxStoreys == 3
MaxCalls == 3
MaxDims == 2
MaxVerts == 2
MaxProducts == 2
MaxRuns == 2
MaxUploads == 3

-----------------------------------------------------------------------------
(* Python values *)

Abs(x) == IF x < 0 THEN -x ELSE x

Max(a, b) == IF a >= b THEN a ELSE b

Range(s) == {s[i] : i \in 1..Len(s)}

DigitChars == <<"0", "1", "2", "3", "4", "5", "6", "7", "8", "9">>

RECURSIVE NatStr(_)
NatStr(n) ==
    IF n < 10 THEN <<DigitChars[n + 1]>>
    ELSE NatStr(n \div 10) \o <<DigitChars[(n % 10) + 1]>>

\* str(n) of an int
IntStr(n) == IF n < 0 THEN <<"-">> \o NatStr(-n) ELSE NatStr(n)

DigitVal(c) == CHOOSE d \in 0..9 : DigitChars[d + 1] = c

RECURSIVE ParseNat(_)
ParseNat(s) ==
    IF Len(s) = 1 THEN DigitVal(s[1])
    ELSE 10 * ParseNat(SubSeq(s, 1, Len(s) - 1)) + DigitVal(s[Len(s)])

\* int(s) of a str of decimal digits with an optional sign
ParseInt(s) == IF s[1] = "-" THEN -ParseNat(Tail(s)) ELSE ParseNat(s)

\* the digits after the point in repr of a float given in thousandths
FracStr(m) ==
    IF m % 1000 = 0 THEN <<"0">>
    ELSE IF m % 100 = 0 THEN <<DigitChars[(m \div 100) + 1]>>
    ELSE IF m % 10 = 0
         THEN <<DigitChars[(m \div 100) + 1], DigitChars[((m \div 10) % 10) + 1]>>
         ELSE <<DigitChars[(m \div 100) + 1], DigitChars[((m \div 10) % 10) + 1],
                DigitChars[(m % 10) + 1]>>

\* str(v) of a number: a float prints with a point, an int without
ValueStr(v) ==
    IF v.kind = "int" THEN IntStr(v.milli \div 1000)
    ELSE IntStr(v.milli \div 1000) \o <<".">> \o FracStr(v.milli % 1000)

\* round(v, 2): to the nearest hundredth; an int stays an int.  Exact ties
\* depend on the binary value of the float and are kept out of the inputs.
Round2(v) ==
    IF v.kind = "int" THEN v
    ELSE [kind |-> "float", milli |-> ((v.milli + 5) \div 10) * 10]

\* the first piece of s.split(sep)
SplitHead(s, sep) ==
    IF \E i \in 1..Len(s) : s[i] = sep
    THEN SubSeq(s, 1, (CHOOSE i \in 1..Len(s) :
                          s[i] = sep /\ \A j \in 1..(i - 1) : s[j] # sep) - 1)
    ELSE s

\* what follows the first sep of s
SplitRest(s, sep) ==
    SubSeq(s, (CHOOSE i \in 1..Len(s) :
                  s[i] = sep /\ \A j \in 1..(i - 1) : s[j] # sep) + 1, Len(s))

\* s.split(sep)[1], for an s holding sep
SplitSecond(s, sep) == SplitHead(SplitRest(s, sep), sep)

StartsWith(s, p) == Len(s) >= Len(p) /\ SubSeq(s, 1, Len(p)) = p

EndsWith(s, p) == Len(s) >= Len(p) /\ SubSeq(s, Len(s) - Len(p) + 1, Len(s)) = p

\* The one-token strings the program compares, in Python's str order
\* (by code point).
StrOrder ==
    <<"Area", "Depth", "Height", "IfcBeam", "IfcBuildingElementProxy",
      "IfcColumn", "IfcCovering", "IfcCurtainWall", "IfcDoor",
      "IfcFlowTerminal", "IfcFurnishingElement", "IfcMember", "IfcPile",
      "IfcPlate", "IfcRailing", "IfcRamp", "IfcRoof", "IfcSite", "IfcSlab",
      "IfcSpace", "IfcStair", "IfcStairFlight", "IfcWall", "IfcWindow",
      "Length", "Thickness", "Volume", "Width">>

StrRank(s) == CHOOSE i \in 1..Len(StrOrder) : StrOrder[i] = s[1]

\* list.sort(key=...) and sorted(..., key=...), keys[i] being the key of
\* seq[i]: stable, ascending in the key
StableSort(seq, keys) ==
    LET n == Len(seq)
        pos(i) == 1 + Cardinality({j \in 1..n :
                        \/ keys[j] < keys[i]
                        \/ keys[j] = keys[i] /\ j < i})
    IN [k \in 1..n |-> seq[CHOOSE i \in 1..n : pos(i) = k]]

\* min(seq, key=...), keys[i] being the key of seq[i]: the first element
\* with the least key
MinBy(seq, keys) ==
    seq[CHOOSE i \in 1..Len(seq) :
            \A j \in 1..Len(seq) :
                \/ keys[i] < keys[j]
                \/ keys[i] = keys[j] /\ i <= j]

DictHas(d, k) == \E i \in 1..Len(d) : d[i].k = k

DictGet(d, k) == d[CHOOSE i \in 1..Len(d) : d[i].k = k].v

\* d[k] = v: a present key keeps its place, a new one goes last
DictPut(d, k, v) ==
    IF DictHas(d, k)
    THEN [i \in 1..Len(d) |-> IF d[i].k = k THEN [k |-> k, v |-> v] ELSE d[i]]
    ELSE Append(d, [k |-> k, v |-> v])

DictValues(d) == [i \in 1..Len(d) |-> d[i].v]

-----------------------------------------------------------------------------
(* The source file *)

\* Python's None, where an int is expected
None == -1

\* bool(x) of an int or None
Truthy(x) == x # None /\ x # 0

\* Storey elevations and element Z coordinates, in units of 0.1 m
Elevations == {0, 30, 60}

ZCoordinates == {-10, 15, 30, 34, 45, 70}

\* What placement_util.get_local_placement does for an object: the object
\* has no ObjectPlacement, the call raises, it returns None, or it returns
\* a matrix whose [2][3] entry is z.
Placements ==
    {[kind |-> k, z |-> 0] : k \in {"absent", "raises", "nomatrix"}}
        \cup {[kind |-> "matrix", z |-> z] : z \in ZCoordinates}

StoreyPlacements ==
    {[kind |-> k, z |-> 0] : k \in {"absent", "raises"}}
        \cup {[kind |-> "matrix", z |-> z] : z \in Elevations}

\* The storeys of a file in by_type order; ids are unique, and either
\* ascend or descend along the enumeration.
StoreyLists ==
    UNION {{[i \in 1..n |-> [id |-> IF asc THEN i ELSE n + 1 - i,
                             placement |-> pl[i]]] :
                pl \in [1..n -> StoreyPlacements], asc \in BOOLEAN} :
           n \in 0..MaxStoreys}

\* What element_util.get_container does for an element: no container, the
\* call raises, a container that is no storey, or the storey with this id.
Containers(storeys) ==
    {[kind |-> k, id |-> 0] : k \in {"none", "raises"}}
        \cup {[kind |-> "other", id |-> 90]}
        \cup {[kind |-> "storey", id |-> storeys[i].id] : i \in 1..Len(storeys)}

-----------------------------------------------------------------------------
(* IFCProcessor: levels and the spatial classifier *)

GetLevelElevation(storey) ==
    IF storey.placement.kind = "matrix" THEN storey.placement.z ELSE 0

LevelElevation(level) == level.elevation

\* the list get_building_levels returns
GetBuildingLevels(storeys) ==
    LET levels == [i \in 1..Len(storeys) |->
                      [id |-> storeys[i].id,
                       elevation |-> GetLevelElevation(storeys[i])]]
    IN StableSort(levels, [i \in 1..Len(levels) |-> LevelElevation(levels[i])])

RECURSIVE DictOfLevels(_)
\* {level['id']: level for level in levels}
DictOfLevels(levels) ==
    IF Len(levels) = 0 THEN <<>>
    ELSE DictPut(DictOfLevels(SubSeq(levels, 1, Len(levels) - 1)),
                 levels[Len(levels)].id, levels[Len(levels)])

FindClosestLevelFarthest(ld, z_coordinate) ==
    IF Len(ld) = 0 THEN None
    ELSE LET dist(level) == 0 - Abs(z_coordinate - level.elevation)
         IN MinBy(DictValues(ld), [i \in 1..Len(ld) |-> dist(ld[i].v)]).id

FindClosestLevel(ld, z_coordinate) ==
    IF Len(ld) = 0 THEN None
    ELSE LET dist(level) == Abs(z_coordinate - level.elevation)
         IN MinBy(DictValues(ld), [i \in 1..Len(ld) |-> dist(ld[i].v)]).id

GetElementLevelPlacementFirst(ld, el) ==
    IF el.placement.kind = "matrix" /\ Len(ld) > 0
    THEN FindClosestLevel(ld, el.placement.z)
    ELSE IF el.container.kind = "storey" THEN el.container.id ELSE None

GetElementLevel(ld, el) ==
    IF el.container.kind = "storey" THEN el.container.id
    ELSE IF el.placement.kind = "matrix"
         THEN FindClosestLevel(ld, el.placement.z)
         ELSE None

-----------------------------------------------------------------------------
(* The classifier on its own: a processor is created over a file, its     *)
(* level cache is filled by get_building_levels, and _get_element_level   *)
(* is called for an element of the file.                                  *)

NoElement == [container |-> [kind |-> "none", id |-> 0],
              placement |-> [kind |-> "absent", z |-> 0]]

Idle ==
    /\ pc = "idle" /\ idx = 0 /\ processed_elements = <<>>
    /\ result = <<>> /\ prev_result = <<>> /\ runs = 0

AggIdle == calls = <<>> /\ table_out = <<>>
ClsIdle == element = NoElement /\ level_ret = None
KeyIdle == element_type = <<>> /\ dimensions = <<>> /\ element_key = <<>>
BoxIdle == verts = <<>> /\ bbox = <<>> /\ valid = FALSE
UpIdle == files = <<>> /\ requests = <<>> /\ loop = 0 /\ uploads = 0

ClassifyInit ==
    /\ source \in {[storeys |-> st, products |-> <<>>] : st \in StoreyLists}
    /\ levels_data = <<>>
    /\ quantity_table = <<>>
    /\ pc = "init" /\ idx = 0 /\ processed_elements = <<>>
    /\ result = <<>> /\ prev_result = <<>> /\ runs = 0
    /\ element \in {[container |-> c, placement |-> p] :
                        c \in Containers(source.storeys), p \in Placements}
    /\ level_ret = None
    /\ AggIdle /\ KeyIdle /\ BoxIdle /\ UpIdle

ClsGetBuildingLevels ==
    /\ pc = "init"
    /\ levels_data' = DictOfLevels(GetBuildingLevels(source.storeys))
    /\ pc' = "levels"
    /\ UNCHANGED <<source, quantity_table, idx, processed_elements, result,
                   prev_result, runs, aggVars, clsVars, keyVars, boxVars,
                   upVars>>

ClsGetElementLevel ==
    /\ pc \in {"init", "levels"}
    /\ level_ret' = GetElementLevel(levels_data, element)
    /\ pc' = IF pc = "init" THEN "classified_uncached" ELSE "classified"
    /\ UNCHANGED <<source, levels_data, quantity_table, idx,
                   processed_elements, result, prev_result, runs, element,
                   aggVars, keyVars, boxVars,
                   upVars>>

ClassifyNext == ClsGetBuildingLevels \/ ClsGetElementLevel

SpecClassify == ClassifyInit /\ [][ClassifyNext]_vars

Classified == pc \in {"classified", "classified_uncached"}

Distance(i) == Abs(element.placement.z - levels_data[i].v.elevation)

\* the place of the storey with this id in the file's enumeration
StoreyIndex(id) ==
    CHOOSE i \in 1..Len(source.storeys) : source.storeys[i].id = id

\* C2: for an element whose container is no storey and whose placement
\* resolves to Z, with a non-empty level cache, the level returned is the
\* first level of the cache, in the cache's order, among those at the least
\* distance |Z - elevation|; and the cache's order is elevation-ascending,
\* equal elevations in the storeys' enumeration order.
C2_NearestElevation ==
    /\ \A i \in 1..Len(levels_data), j \in 1..Len(levels_data) :
          i < j =>
            \/ levels_data[i].v.elevation < levels_data[j].v.elevation
            \/ /\ levels_data[i].v.elevation = levels_data[j].v.elevation
               /\ StoreyIndex(levels_data[i].k) < StoreyIndex(levels_data[j].k)
    /\ ( /\ Classified
         /\ element.container.kind # "storey"
         /\ element.placement.kind = "matrix"
         /\ Len(levels_data) > 0 )
       => \E i \in 1..Len(levels_data) :
            /\ level_ret = levels_data[i].k
            /\ level_ret = levels_data[i].v.id
            /\ \A j \in 1..Len(levels_data) : Distance(i) <= Distance(j)
            /\ \A j \in 1..(i - 1) : Distance(i) < Distance(j)

\* C2's case: two levels of the cache tie for the least distance, one of
\* them at the elevation of a storey enumerated later in the file than a
\* storey above it, and the first of the two in the cache is returned.
C2_Witness ==
    /\ pc = "classified"
    /\ element.container.kind # "storey"
    /\ element.placement.kind = "matrix"
    /\ \E i \in 1..Len(levels_data), j \in 1..Len(levels_data) :
          /\ i < j
          /\ Distance(i) = Distance(j)
          /\ \A k \in 1..Len(levels_data) : Distance(i) <= Distance(k)
          /\ levels_data[i].v.elevation < levels_data[j].v.elevation
          /\ StoreyIndex(levels_data[i].k) > StoreyIndex(levels_data[j].k)
          /\ level_ret = levels_data[i].k

StoreyIds == {source.storeys[i].id : i \in 1..Len(source.storeys)}

\* C3: a storey container decides the level whatever the placement and the
\* cache hold; without one the placement step decides; and whatever fails
\* (the container lookup, the placement, an empty cache) the result is a
\* level id or None: None always when the cache is empty and the container
\* is no storey.
C3_StepOrder ==
    Classified =>
        /\ element.container.kind = "storey" => level_ret = element.container.id
        /\ ( /\ element.container.kind # "storey"
             /\ element.placement.kind = "matrix"
             /\ Len(levels_data) > 0 )
           => \E i \in 1..Len(levels_data) : level_ret = levels_data[i].k
        /\ ( /\ element.container.kind # "storey"
             /\ element.placement.kind # "matrix" )
           => level_ret = None
        /\ ( /\ element.container.kind # "storey"
             /\ Len(levels_data) = 0 )
           => level_ret = None
        /\ level_ret = None \/ level_ret \in StoreyIds

\* C3's case: the container is a storey although the placement lies nearest
\* to another level of the populated cache, and the container's id is
\* returned.
C3_Witness ==
    /\ pc = "classified"
    /\ element.container.kind = "storey"
    /\ element.placement.kind = "matrix"
    /\ Len(levels_data) > 1
    /\ FindClosestLevel(levels_data, element.placement.z) # element.container.id
    /\ level_ret = element.container.id

-----------------------------------------------------------------------------
(* IFCProcessor: the element key *)

\* all of RELEVANT_ELEMENT_TYPES
RELEVANT_ELEMENT_TYPES ==
    {"IfcWall", "IfcSlab", "IfcColumn", "IfcBeam", "IfcDoor", "IfcWindow",
     "IfcStair", "IfcStairFlight", "IfcRailing", "IfcRamp", "IfcRoof",
     "IfcCurtainWall", "IfcMember", "IfcPlate", "IfcCovering",
     "IfcFlowTerminal", "IfcBuildingElementProxy", "IfcFurnishingElement",
     "IfcSpace"}

\* the type names the model's elements carry: three relevant types and one
\* that is not
TypeNames == {"IfcWall", "IfcDoor", "IfcBeam", "IfcPile"}

dimension_props ==
    {"Length", "Width", "Height", "Thickness", "Area", "Volume", "Depth"}

\* the property values of the model: floats 1.0, 2.345 and 0.0, the int 2
DimensionValues ==
    {[kind |-> "float", milli |-> 1000], [kind |-> "float", milli |-> 2345],
     [kind |-> "float", milli |-> 0], [kind |-> "int", milli |-> 2000]}

\* the dicts of up to MaxDims dimensions, in every insertion order
DimensionDicts ==
    UNION {{[i \in 1..n |-> [k |-> <<names[i]>>, v |-> vals[i]]] :
                names \in {f \in [1..n -> dimension_props] :
                              \A i \in 1..n, j \in 1..n : i # j => f[i] # f[j]},
                vals \in [1..n -> DimensionValues]} :
           n \in 0..MaxDims}

RECURSIVE Join(_, _)
\* sep.join(parts)
Join(sep, parts) ==
    IF Len(parts) = 0 THEN <<>>
    ELSE IF Len(parts) = 1 THEN parts[1]
    ELSE parts[1] \o sep \o Join(sep, Tail(parts))

RECURSIVE FilterPositive(_)
\* [item for item in items if value > 0]
FilterPositive(items) ==
    IF Len(items) = 0 THEN <<>>
    ELSE IF items[1].v.milli > 0
         THEN <<items[1]>> \o FilterPositive(Tail(items))
         ELSE FilterPositive(Tail(items))

\* sorted(dimensions.items()): names are unique, so the name decides
SortedItems(dims) ==
    StableSort(dims, [i \in 1..Len(dims) |-> StrRank(dims[i].k)])

DimParts(items) ==
    [i \in 1..Len(items) |-> items[i].k \o <<":">> \o ValueStr(items[i].v)]

CreateElementKeyUnsorted(type, dims) ==
    IF Len(dims) = 0 THEN type \o <<"_", "default">>
    ELSE LET dim_parts == DimParts(FilterPositive(dims))
         IN IF Len(dim_parts) > 0
            THEN type \o <<"_">> \o Join(<<"-">>, dim_parts)
            ELSE type \o <<"_", "default">>

CreateElementKey(type, dims) ==
    IF Len(dims) = 0 THEN type \o <<"_", "default">>
    ELSE LET dim_parts == DimParts(FilterPositive(SortedItems(dims)))
         IN IF Len(dim_parts) > 0
            THEN type \o <<"_">> \o Join(<<"-">>, dim_parts)
            ELSE type \o <<"_", "default">>

-----------------------------------------------------------------------------
(* The key deriver on its own: _create_element_key is called with a type  *)
(* and a dict of dimensions.                                               *)

KeyInit ==
    /\ source = [storeys |-> <<>>, products |-> <<>>]
    /\ levels_data = <<>>
    /\ quantity_table = <<>>
    /\ pc = "init" /\ idx = 0 /\ processed_elements = <<>>
    /\ result = <<>> /\ prev_result = <<>> /\ runs = 0
    /\ element_type \in {<<t>> : t \in TypeNames}
    /\ dimensions \in DimensionDicts
    /\ element_key = <<>>
    /\ AggIdle /\ ClsIdle /\ BoxIdle /\ UpIdle

KeyCreateElementKey ==
    /\ pc = "init"
    /\ element_key' = CreateElementKey(element_type, dimensions)
    /\ pc' = "keyed"
    /\ UNCHANGED <<source, levels_data, quantity_table, idx,
                   processed_elements, result, prev_result, runs,
                   element_type, dimensions, aggVars, clsVars, boxVars,
                   upVars>>

KeyNext == KeyCreateElementKey

SpecKey == KeyInit /\ [][KeyNext]_vars

Orderings(n) ==
    {f \in [1..n -> 1..n] : \A i \in 1..n, j \in 1..n : i # j => f[i] # f[j]}

AllPositive(dims) == \A i \in 1..Len(dims) : dims[i].v.milli > 0

\* C5: an empty dict gives "{type}_default"; a non-empty dict of positive
\* values gives "{type}_" and then the "name:value" pairs in ascending name
\* order, joined by "-"; so every insertion order of the same dimensions
\* gives the same key, and {"Width": 2.345, "Length": 1.0} on IfcWall gives
\* "IfcWall_Length:1.0-Width:2.345".
C5_ElementKey ==
    pc = "keyed" =>
        /\ Len(dimensions) = 0 => element_key = element_type \o <<"_", "default">>
        /\ (Len(dimensions) > 0 /\ AllPositive(dimensions)) =>
              /\ \E p \in Orderings(Len(dimensions)) :
                    /\ \A i \in 1..(Len(dimensions) - 1) :
                          StrRank(dimensions[p[i]].k) < StrRank(dimensions[p[i + 1]].k)
                    /\ element_key =
                          element_type \o <<"_">> \o
                          Join(<<"-">>,
                               [i \in 1..Len(dimensions) |->
                                    dimensions[p[i]].k \o <<":">>
                                        \o ValueStr(dimensions[p[i]].v)])
              /\ \A p \in Orderings(Len(dimensions)) :
                    CreateElementKey(element_type,
                                     [i \in 1..Len(dimensions) |-> dimensions[p[i]]])
                        = element_key
        /\ ( /\ element_type = <<"IfcWall">>
             /\ dimensions = <<[k |-> <<"Width">>, v |-> [kind |-> "float", milli |-> 2345]],
                               [k |-> <<"Length">>, v |-> [kind |-> "float", milli |-> 1000]]>> )
           => element_key = <<"IfcWall", "_", "Length", ":", "1", ".", "0", "-",
                              "Width", ":", "2", ".", "3", "4", "5">>

\* C5's case: Width was inserted before Length, and the key names Length
\* first.
C5_Witness ==
    /\ pc = "keyed"
    /\ element_type = <<"IfcWall">>
    /\ Len(dimensions) = 2
    /\ dimensions[1].k = <<"Width">> /\ dimensions[1].v.milli = 2345
    /\ dimensions[2].k = <<"Length">> /\ dimensions[2].v.milli = 1000
    /\ element_key = <<"IfcWall", "_", "Length", ":", "1", ".", "0", "-",
                       "Width", ":", "2", ".", "3", "4", "5">>

-----------------------------------------------------------------------------
(* IFCProcessor: the quantity table *)

\* "m2" and "m3" stand for the source's square and cubic metre signs
UNIT_MAPPINGS ==
    <<[k |-> <<"IfcWall">>, v |-> "m2"], [k |-> <<"IfcSlab">>, v |-> "m2"],
      [k |-> <<"IfcColumn">>, v |-> "units"], [k |-> <<"IfcBeam">>, v |-> "m"],
      [k |-> <<"IfcDoor">>, v |-> "units"], [k |-> <<"IfcWindow">>, v |-> "units"],
      [k |-> <<"IfcStair">>, v |-> "units"],
      [k |-> <<"IfcStairFlight">>, v |-> "units"],
      [k |-> <<"IfcRailing">>, v |-> "m"], [k |-> <<"IfcRamp">>, v |-> "m2"],
      [k |-> <<"IfcRoof">>, v |-> "m2"], [k |-> <<"IfcCurtainWall">>, v |-> "m2"],
      [k |-> <<"IfcMember">>, v |-> "m"], [k |-> <<"IfcPlate">>, v |-> "m2"],
      [k |-> <<"IfcCovering">>, v |-> "m2"],
      [k |-> <<"IfcFlowTerminal">>, v |-> "units"],
      [k |-> <<"IfcBuildingElementProxy">>, v |-> "units"],
      [k |-> <<"IfcFurnishingElement">>, v |-> "units"],
      [k |-> <<"IfcSpace">>, v |-> "m3"]>>

\* d.get(k, default)
DictGetOr(d, k, default) == IF DictHas(d, k) THEN DictGet(d, k) ELSE default

\* quantity_table[element_key][name] += 1, on a defaultdict of
\* defaultdict(int)
Increment(qt, key, name) ==
    LET inner == DictGetOr(qt, key, <<>>)
    IN DictPut(qt, key, DictPut(inner, name, DictGetOr(inner, name, 0) + 1))

LevelKey(level_id) == <<"level", "_">> \o IntStr(level_id) \o <<"_", "count">>

UpdateQuantityTableLevelOnly(qt, key, level_id) ==
    IF Truthy(level_id) THEN Increment(qt, key, LevelKey(level_id))
    ELSE Increment(qt, key, <<"total", "_", "count">>)

UpdateQuantityTable(qt, key, level_id) ==
    LET counted == Increment(qt, key, <<"total", "_", "count">>)
    IN IF Truthy(level_id) THEN Increment(counted, key, LevelKey(level_id))
       ELSE counted

RECURSIVE LevelQuantities(_)
\* the level_quantities dict built from a key's quantities
LevelQuantities(quantities) ==
    IF Len(quantities) = 0 THEN <<>>
    ELSE LET n == Len(quantities)
             before == LevelQuantities(SubSeq(quantities, 1, n - 1))
             qty_name == quantities[n].k
         IN IF StartsWith(qty_name, <<"level", "_">>)
                 /\ EndsWith(qty_name, <<"_", "count">>)
            THEN DictPut(before, ParseInt(SplitSecond(qty_name, "_")),
                         quantities[n].v)
            ELSE before

QuantityRow(element_key_, quantities) ==
    LET type == SplitHead(element_key_, "_")
    IN [element_key |-> element_key_,
        element_type |-> type,
        unit_of_measure |-> DictGetOr(UNIT_MAPPINGS, type, "units"),
        total_quantity |-> DictGetOr(quantities, <<"total", "_", "count">>, 0),
        level_quantities |-> LevelQuantities(quantities)]

SortedLevels(ld) ==
    StableSort(DictValues(ld), [i \in 1..Len(ld) |-> LevelElevation(ld[i].v)])

GenerateQuantityTableDataUnsorted(qt, ld) ==
    IF Len(qt) = 0 THEN [table_data |-> <<>>, levels |-> DictValues(ld)]
    ELSE [table_data |-> [i \in 1..Len(qt) |-> QuantityRow(qt[i].k, qt[i].v)],
          levels |-> SortedLevels(ld)]

GenerateQuantityTableData(qt, ld) ==
    IF Len(qt) = 0 THEN [table_data |-> <<>>, levels |-> DictValues(ld)]
    ELSE LET rows == [i \in 1..Len(qt) |-> QuantityRow(qt[i].k, qt[i].v)]
         IN [table_data |->
                StableSort(rows, [i \in 1..Len(rows) |->
                                      StrRank(rows[i].element_type)]),
             levels |-> SortedLevels(ld)]

-----------------------------------------------------------------------------
(* The aggregator on its own: a processor with its level cache filled,    *)
(* _update_quantity_table called any number of times, and then            *)
(* generate_quantity_table_data.                                          *)

\* the element keys handed to the aggregator
AggKeys ==
    {CreateElementKey(<<"IfcWall">>, <<>>),
     CreateElementKey(<<"IfcWall">>,
                      <<[k |-> <<"Length">>, v |-> [kind |-> "float", milli |-> 1000]]>>),
     CreateElementKey(<<"IfcDoor">>, <<>>),
     CreateElementKey(<<"IfcPile">>, <<>>)}

\* the level ids handed to the aggregator: entity ids are positive
AggLevels == {None, 1, 2}

\* no storey, or two storeys, the second not above the first
AggStoreyLists ==
    {st \in StoreyLists :
        \/ Len(st) = 0
        \/ /\ Len(st) = 2
           /\ st[1].placement = [kind |-> "matrix", z |-> 30]
           /\ st[2].placement \in {[kind |-> "matrix", z |-> 0],
                                   [kind |-> "matrix", z |-> 30]}}

AggInit ==
    /\ source \in {[storeys |-> st, products |-> <<>>] : st \in AggStoreyLists}
    /\ levels_data = DictOfLevels(GetBuildingLevels(source.storeys))
    /\ quantity_table = <<>>
    /\ pc = "accumulating" /\ idx = 0 /\ processed_elements = <<>>
    /\ result = <<>> /\ prev_result = <<>> /\ runs = 0
    /\ calls = <<>>
    /\ table_out = [table_data |-> <<>>, levels |-> <<>>]
    /\ ClsIdle /\ KeyIdle /\ BoxIdle /\ UpIdle

AggUpdateQuantityTable ==
    /\ pc = "accumulating"
    /\ Len(calls) < MaxCalls
    /\ \E key \in AggKeys, level_id \in AggLevels :
          /\ quantity_table' = UpdateQuantityTable(quantity_table, key, level_id)
          /\ calls' = Append(calls, [key |-> key, level |-> level_id])
    /\ UNCHANGED <<source, levels_data, pc, idx, processed_elements, result,
                   prev_result, runs, table_out, clsVars, keyVars, boxVars,
                   upVars>>

AggGenerateQuantityTableData ==
    /\ pc = "accumulating"
    /\ table_out' = GenerateQuantityTableData(quantity_table, levels_data)
    /\ pc' = "rendered"
    /\ UNCHANGED <<source, levels_data, quantity_table, idx,
                   processed_elements, result, prev_result, runs, calls,
                   clsVars, keyVars, boxVars,
                   upVars>>

AggNext == AggUpdateQuantityTable \/ AggGenerateQuantityTableData

SpecAgg == AggInit /\ [][AggNext]_vars

CallsOf(key) == {i \in 1..Len(calls) : calls[i].key = key}

CallsAt(key, level) ==
    {i \in 1..Len(calls) : calls[i].key = key /\ calls[i].level = level}

Rows == table_out.table_data

\* C1: render emits exactly one row per distinct key accumulated; the
\* row's total_quantity is the number of calls made with its key, and for
\* every level id L its level_quantities[L] is the number of calls made
\* with its key and L, L being absent when there was none.
C1_Aggregation ==
    pc = "rendered" =>
        /\ {Rows[r].element_key : r \in 1..Len(Rows)}
              = {calls[i].key : i \in 1..Len(calls)}
        /\ \A r \in 1..Len(Rows), q \in 1..Len(Rows) :
              Rows[r].element_key = Rows[q].element_key => r = q
        /\ \A r \in 1..Len(Rows) :
              /\ Rows[r].total_quantity = Cardinality(CallsOf(Rows[r].element_key))
              /\ \A L \in AggLevels \ {None} :
                    LET n == Cardinality(CallsAt(Rows[r].element_key, L))
                        lq == Rows[r].level_quantities
                    IN IF n = 0 THEN ~DictHas(lq, L)
                       ELSE DictHas(lq, L) /\ DictGet(lq, L) = n
              /\ \A e \in 1..Len(Rows[r].level_quantities) :
                    Rows[r].level_quantities[e].k \in AggLevels \ {None}

\* C1's case: one key accumulated at levels 1, 1, 2 renders as one row with
\* total_quantity 3 and level_quantities {1: 2, 2: 1}.
C1_Witness ==
    /\ pc = "rendered"
    /\ Len(calls) = 3
    /\ calls[1].key = calls[2].key /\ calls[2].key = calls[3].key
    /\ <<calls[1].level, calls[2].level, calls[3].level>> = <<1, 1, 2>>
    /\ Len(Rows) = 1
    /\ Rows[1].total_quantity = 3
    /\ Rows[1].level_quantities = <<[k |-> 1, v |-> 2], [k |-> 2, v |-> 1]>>

FirstCall(key) == CHOOSE i \in CallsOf(key) : \A j \in CallsOf(key) : i <= j

\* C10: rows come in non-decreasing element_type order, equal types in the
\* order their keys were first accumulated; a row's element_type is its
\* key up to the first "_", and its unit is the type's unit, "units" for a
\* type without one; the levels come in ascending elevation order; an empty
\* table renders as no rows together with the levels.
C10_RenderOrder ==
    pc = "rendered" =>
        /\ \A r \in 1..Len(Rows) :
              LET row == Rows[r]
                  n == Len(row.element_type)
              IN /\ \A i \in 1..n : row.element_type[i] # "_"
                 /\ Len(row.element_key) > n
                 /\ SubSeq(row.element_key, 1, n + 1) = row.element_type \o <<"_">>
                 /\ row.unit_of_measure =
                      IF \E u \in 1..Len(UNIT_MAPPINGS) :
                              UNIT_MAPPINGS[u].k = row.element_type
                      THEN UNIT_MAPPINGS[CHOOSE u \in 1..Len(UNIT_MAPPINGS) :
                                  UNIT_MAPPINGS[u].k = row.element_type].v
                      ELSE "units"
        /\ \A r \in 1..Len(Rows), q \in 1..Len(Rows) :
              r < q =>
                \/ StrRank(Rows[r].element_type) < StrRank(Rows[q].element_type)
                \/ /\ Rows[r].element_type = Rows[q].element_type
                   /\ FirstCall(Rows[r].element_key) < FirstCall(Rows[q].element_key)
        /\ \A i \in 1..Len(table_out.levels), j \in 1..Len(table_out.levels) :
              i < j => table_out.levels[i].elevation <= table_out.levels[j].elevation
        /\ {table_out.levels[i] : i \in 1..Len(table_out.levels)}
              = {levels_data[i].v : i \in 1..Len(levels_data)}
        /\ Len(table_out.levels) = Len(levels_data)
        /\ Len(calls) = 0 => Rows = <<>>

\* C10's case: three keys were accumulated, an IfcWall key first, then a
\* key of a type that sorts before IfcWall, then a second IfcWall key; the
\* rows come with the other type first and the two IfcWall rows in the
\* order of their first accumulation.
C10_Witness ==
    /\ pc = "rendered"
    /\ Len(Rows) = 3
    /\ Len(levels_data) = 2
    /\ Rows[2].element_type = <<"IfcWall">> /\ Rows[3].element_type = <<"IfcWall">>
    /\ Rows[1].element_type # <<"IfcWall">>
    /\ FirstCall(Rows[2].element_key) = 1
    /\ FirstCall(Rows[1].element_key) = 2
    /\ FirstCall(Rows[3].element_key) = 3

-----------------------------------------------------------------------------
(* IFCGeometryExtractor: the bounding box *)

\* 1 mm, in units of 0.25 mm
MIN_SIZE_THRESHOLD == 4

\* vertex coordinates, in units of 0.25 mm: all even, so that (min + max) / 2
\* is exact
Coordinates == {-2, 0, 6}

\* the box with corners (0, 0, 0) and (1, 2, 3), in metres
Cube123 == <<0, 0, 0, 4000, 8000, 12000>>

\* shape.geometry.verts: a flat sequence of coordinates, of any length up to
\* that of MaxVerts vertices
FlatVerts ==
    UNION {[1..n -> Coordinates] : n \in 0..(3 * MaxVerts)} \cup {Cube123}

\* the shapes with no vertex, or with a coordinate missing
DegenerateVerts == {<<>>, <<0>>, <<6, 0, 6, -2>>}

DefaultBboxCentred ==
    LET default_size == MIN_SIZE_THRESHOLD * 10
    IN [min |-> <<0 - default_size \div 2, 0 - default_size \div 2,
                  0 - default_size \div 2>>,
        max |-> <<default_size \div 2, default_size \div 2, default_size \div 2>>,
        center |-> <<0, 0, 0>>,
        size |-> <<default_size, default_size, default_size>>]

DefaultBbox ==
    LET default_size == MIN_SIZE_THRESHOLD * 10
    IN [min |-> <<0, 0, 0>>,
        max |-> <<default_size, default_size, default_size>>,
        center |-> <<default_size \div 2, default_size \div 2, default_size \div 2>>,
        size |-> <<default_size, default_size, default_size>>]

\* np.array(verts).reshape(-1, 3): the rows, for a length divisible by 3
Reshape3(flat) ==
    [r \in 1..(Len(flat) \div 3) |->
        <<flat[3 * r - 2], flat[3 * r - 1], flat[3 * r]>>]

TransformVertexUnswapped(v) == v

\* transformed_verts[:, [1, 2]] = transformed_verts[:, [2, 1]]
TransformVertex(v) == <<v[1], v[3], v[2]>>

AxisMin(rows, a) ==
    CHOOSE m \in {rows[r][a] : r \in 1..Len(rows)} :
        \A r \in 1..Len(rows) : m <= rows[r][a]

AxisMax(rows, a) ==
    CHOOSE m \in {rows[r][a] : r \in 1..Len(rows)} :
        \A r \in 1..Len(rows) : m >= rows[r][a]

ClampSizeUnclamped(extent) == extent

\* np.maximum(extent, MIN_SIZE_THRESHOLD), for one component
ClampSize(extent) == Max(extent, MIN_SIZE_THRESHOLD)

CalculateBoundingBox(flat) ==
    IF Len(flat) % 3 # 0 THEN DefaultBbox      \* reshape raises
    ELSE IF Len(flat) = 0 THEN DefaultBbox
    ELSE LET rows == Reshape3(flat)
             transformed_verts == [r \in 1..Len(rows) |-> TransformVertex(rows[r])]
             min_coords == [a \in 1..3 |-> AxisMin(transformed_verts, a)]
             max_coords == [a \in 1..3 |-> AxisMax(transformed_verts, a)]
         IN [min |-> min_coords,
             max |-> max_coords,
             center |-> [a \in 1..3 |-> (min_coords[a] + max_coords[a]) \div 2],
             size |-> [a \in 1..3 |-> ClampSize(max_coords[a] - min_coords[a])]]

IsValidGeometry(box) == \A a \in 1..3 : box.size[a] >= MIN_SIZE_THRESHOLD

-----------------------------------------------------------------------------
(* The bounding-box builder on its own: _calculate_bounding_box and the   *)
(* validity gate are applied to a shape, and then to a degenerate shape.  *)
(* idx counts the boxes built.                                            *)

BoxInit ==
    /\ source = [storeys |-> <<>>, products |-> <<>>]
    /\ levels_data = <<>>
    /\ quantity_table = <<>>
    /\ pc = "shape" /\ idx = 0 /\ processed_elements = <<>>
    /\ result = <<>> /\ prev_result = <<>> /\ runs = 0
    /\ verts \in FlatVerts
    /\ bbox = <<>>
    /\ valid = FALSE
    /\ AggIdle /\ ClsIdle /\ KeyIdle /\ UpIdle

BoxCalculateBoundingBox ==
    /\ pc = "shape"
    /\ bbox' = CalculateBoundingBox(verts)
    /\ valid' = IsValidGeometry(bbox')
    /\ pc' = "box"
    /\ idx' = idx + 1
    /\ UNCHANGED <<source, levels_data, quantity_table, processed_elements,
                   result, prev_result, runs, verts, aggVars, clsVars, keyVars,
                   upVars>>

BoxNextDegenerateShape ==
    /\ pc = "box"
    /\ idx = 1
    /\ verts' \in DegenerateVerts
    /\ pc' = "shape"
    /\ UNCHANGED <<source, levels_data, quantity_table, idx,
                   processed_elements, result, prev_result, runs, bbox, valid,
                   aggVars, clsVars, keyVars,
                   upVars>>

BoxNext == BoxCalculateBoundingBox \/ BoxNextDegenerateShape

SpecBox == BoxInit /\ [][BoxNext]_vars

\* C6: every component of the size of a built box is at least the
\* threshold and equals max(max - min, threshold): an axis whose extent is
\* below the threshold has size exactly the threshold; the centre is
\* (min + max) / 2 of the unclamped extents; and the box passes the
\* validity gate.
C6_SizeInvariant ==
    pc = "box" =>
        /\ \A a \in 1..3 :
              /\ bbox.size[a] >= MIN_SIZE_THRESHOLD
              /\ bbox.size[a] = Max(bbox.max[a] - bbox.min[a], MIN_SIZE_THRESHOLD)
              /\ bbox.max[a] - bbox.min[a] < MIN_SIZE_THRESHOLD
                    => bbox.size[a] = MIN_SIZE_THRESHOLD
              /\ 2 * bbox.center[a] = bbox.min[a] + bbox.max[a]
        /\ valid

\* C6's case: a box with one axis of extent 0, one of an extent between 0
\* and the threshold and one of an extent above it.
C6_Witness ==
    /\ pc = "box"
    /\ valid
    /\ \E a \in 1..3, b \in 1..3, c \in 1..3 :
          /\ bbox.max[a] = bbox.min[a] /\ bbox.size[a] = MIN_SIZE_THRESHOLD
          /\ bbox.max[b] - bbox.min[b] = 2 /\ bbox.size[b] = MIN_SIZE_THRESHOLD
          /\ bbox.max[c] - bbox.min[c] = 8 /\ bbox.size[c] = 8
          /\ bbox.center[b] = bbox.min[b] + 1

\* C7: a shape with no vertex, and a shape whose vertex array cannot be
\* formed, both give the default box: min (0,0,0), max and size ten
\* thresholds on each axis, centre five thresholds on each axis; whatever
\* box was built before.
C7_DefaultBox ==
    (pc = "box" /\ (Len(verts) = 0 \/ Len(verts) % 3 # 0)) =>
        /\ bbox.min = <<0, 0, 0>>
        /\ bbox.max = <<10 * MIN_SIZE_THRESHOLD, 10 * MIN_SIZE_THRESHOLD,
                        10 * MIN_SIZE_THRESHOLD>>
        /\ bbox.size = bbox.max
        /\ bbox.center = <<5 * MIN_SIZE_THRESHOLD, 5 * MIN_SIZE_THRESHOLD,
                           5 * MIN_SIZE_THRESHOLD>>

\* C7's case: the second box built, of a shape with a coordinate missing,
\* is the default box.
C7_Witness ==
    /\ pc = "box"
    /\ idx = 2
    /\ Len(verts) % 3 # 0
    /\ bbox.max = <<40, 40, 40>>
    /\ bbox.center = <<20, 20, 20>>

\* source vertex r of the shape
Vertex(r) == <<verts[3 * r - 2], verts[3 * r - 1], verts[3 * r]>>

-----------------------------------------------------------------------------
(* The products of a file *)

\* what element_util.get_psets yields for a product: the call raises, or
\* the (name, value) properties of its property sets in iteration order
NoProperties == [raises |-> FALSE, props |-> <<>>]

MixedProperties ==
    [raises |-> FALSE,
     props |-> <<[k |-> <<"Width">>, v |-> [kind |-> "float", milli |-> 2346]],
                 [k |-> <<"Reference">>, v |-> [kind |-> "str", milli |-> 0]],
                 [k |-> <<"Height">>, v |-> [kind |-> "float", milli |-> 0]],
                 [k |-> <<"Length">>, v |-> [kind |-> "float", milli |-> 1000]],
                 [k |-> <<"LoadBearing">>, v |-> [kind |-> "float", milli |-> 1000]]>>]

IntProperties ==
    [raises |-> FALSE,
     props |-> <<[k |-> <<"Length">>, v |-> [kind |-> "int", milli |-> 2000]]>>]

RaisingProperties == [raises |-> TRUE, props |-> <<>>]

\* what ifcopenshell.geom.create_shape yields for a product: it raises, it
\* gives no shape or no geometry, or it gives a shape with these verts
BoxShape == [kind |-> "verts", verts |-> <<0, 0, 0, 6, -2, 0>>]

\* The kinds of product of the model.  first_storey: the product is
\* contained in the first storey of the file, where the file has one.
\* fails: _process_single_element raises for the product, at a statement
\* before its call of _update_quantity_table (none follows the call).
ProductKinds ==
    {[type |-> "IfcWall", representation |-> TRUE, first_storey |-> TRUE,
      placement |-> [kind |-> "absent", z |-> 0], psets |-> NoProperties,
      shape |-> BoxShape,
      fails |-> FALSE],
     [type |-> "IfcWall", representation |-> TRUE, first_storey |-> FALSE,
      placement |-> [kind |-> "matrix", z |-> 34], psets |-> MixedProperties,
      shape |-> BoxShape,
      fails |-> FALSE],
     [type |-> "IfcDoor", representation |-> TRUE, first_storey |-> FALSE,
      placement |-> [kind |-> "raises", z |-> 0], psets |-> RaisingProperties,
      shape |-> [kind |-> "raises", verts |-> <<>>],
      fails |-> FALSE],
     [type |-> "IfcPile", representation |-> TRUE, first_storey |-> TRUE,
      placement |-> [kind |-> "matrix", z |-> 15], psets |-> MixedProperties,
      shape |-> BoxShape,
      fails |-> FALSE],
     [type |-> "IfcWall", representation |-> FALSE, first_storey |-> TRUE,
      placement |-> [kind |-> "matrix", z |-> 15], psets |-> NoProperties,
      shape |-> [kind |-> "none", verts |-> <<>>],
      fails |-> FALSE],
     [type |-> "IfcDoor", representation |-> TRUE, first_storey |-> FALSE,
      placement |-> [kind |-> "matrix", z |-> 15], psets |-> IntProperties,
      shape |-> [kind |-> "verts", verts |-> <<>>],
      fails |-> FALSE],
     [type |-> "IfcBeam", representation |-> TRUE, first_storey |-> FALSE,
      placement |-> [kind |-> "nomatrix", z |-> 0], psets |-> NoProperties,
      shape |-> [kind |-> "none", verts |-> <<>>],
      fails |-> FALSE],
     [type |-> "IfcWall", representation |-> TRUE, first_storey |-> TRUE,
      placement |-> [kind |-> "matrix", z |-> 34], psets |-> IntProperties,
      shape |-> BoxShape,
      fails |-> TRUE]}

\* the storey lists of the pipeline's files: none, or two storeys at 0 and
\* 3 m in either enumeration order, or both at 0
PipeStoreyLists ==
    {st \in StoreyLists :
        \/ Len(st) = 0
        \/ /\ Len(st) = 2
           /\ st[1].id = 1
           /\ <<st[1].placement, st[2].placement>> \in
                {<<[kind |-> "matrix", z |-> 0], [kind |-> "matrix", z |-> 30]>>,
                 <<[kind |-> "matrix", z |-> 30], [kind |-> "matrix", z |-> 0]>>,
                 <<[kind |-> "absent", z |-> 0], [kind |-> "matrix", z |-> 0]>>}}

\* product i of a file: entity ids are unique, and so are GlobalIds
Product(i, kind, storeys) ==
    [id |-> 100 + i,
     global_id |-> <<"g">> \o IntStr(i),
     type |-> <<kind.type>>,
     representation |-> kind.representation,
     container |-> IF kind.first_storey /\ Len(storeys) > 0
                   THEN [kind |-> "storey", id |-> storeys[1].id]
                   ELSE [kind |-> "none", id |-> 0],
     placement |-> kind.placement,
     psets |-> kind.psets,
     shape |-> kind.shape,
     fails |-> kind.fails]

\* a storey as by_type('IfcProduct') yields it: storeys carry no
\* representation
StoreyProduct(storey) ==
    [id |-> storey.id,
     global_id |-> <<"s">> \o IntStr(storey.id),
     type |-> <<"IfcBuildingStorey">>,
     representation |-> FALSE,
     container |-> [kind |-> "other", id |-> 90],
     placement |-> storey.placement,
     psets |-> NoProperties,
     shape |-> [kind |-> "none", verts |-> <<>>],
     fails |-> FALSE]

Sources ==
    UNION {{[storeys |-> st,
             products |-> [i \in 1..n |-> Product(i, kinds[i], st)]] :
                kinds \in [1..n -> ProductKinds], st \in PipeStoreyLists} :
           n \in 0..MaxProducts}

\* ifc_file.by_type('IfcProduct')
AllProducts(src) ==
    [i \in 1..Len(src.storeys) |-> StoreyProduct(src.storeys[i])] \o src.products

RECURSIVE SelectSeq2(_, _)
\* the elements of seq at the places where keep is TRUE
SelectSeq2(seq, keep) ==
    IF Len(seq) = 0 THEN <<>>
    ELSE (IF keep[1] THEN <<seq[1]>> ELSE <<>>)
            \o SelectSeq2(Tail(seq), Tail(keep))

-----------------------------------------------------------------------------
(* IFCProcessor: the element processing pipeline *)

RelevantElements(all_products) ==
    SelectSeq2(all_products,
               [i \in 1..Len(all_products) |->
                    /\ all_products[i].representation
                    /\ all_products[i].type[1] \in RELEVANT_ELEMENT_TYPES])

RECURSIVE CollectDimensions(_)
\* the loop of _get_element_dimensions over the properties
CollectDimensions(props) ==
    IF Len(props) = 0 THEN <<>>
    ELSE LET n == Len(props)
             before == CollectDimensions(SubSeq(props, 1, n - 1))
         IN IF /\ props[n].k[1] \in dimension_props
               /\ props[n].v.kind \in {"int", "float"}
               /\ props[n].v.milli > 0
            THEN DictPut(before, props[n].k, Round2(props[n].v))
            ELSE before

GetElementDimensions(product) ==
    IF product.psets.raises THEN <<>>
    ELSE CollectDimensions(product.psets.props)

\* the element_info _process_single_element returns
ProcessSingleElement(ld, product) ==
    LET dims == GetElementDimensions(product)
    IN [id |-> product.id,
        global_id |-> product.global_id,
        type |-> product.type,
        level_id |-> GetElementLevel(ld, product),
        dimensions |-> dims,
        element_key |-> CreateElementKey(product.type, dims)]

\* processed_elements after the turn of the loop for this product: an
\* exception skips the product
ElementsAfter(elements, ld, product) ==
    IF product.fails THEN elements
    ELSE Append(elements, ProcessSingleElement(ld, product))

QuantityTableAfterCountedFirst(qt, ld, product) ==
    LET element_info == ProcessSingleElement(ld, product)
    IN UpdateQuantityTable(qt, element_info.element_key, element_info.level_id)

\* quantity_table after the turn of the loop for this product: the
\* exception comes before the table is touched
QuantityTableAfter(qt, ld, product) ==
    IF product.fails THEN qt
    ELSE LET element_info == ProcessSingleElement(ld, product)
         IN UpdateQuantityTable(qt, element_info.element_key,
                                element_info.level_id)

\* self.quantity_table as __init__ sets it, whatever an earlier processor
\* held
InitQuantityTableShared(earlier) == earlier

InitQuantityTable(earlier) == <<>>

-----------------------------------------------------------------------------
(* IFCGeometryExtractor: the geometry extraction pipeline *)

\* product.is_a().lower().replace('ifc', '')
LowerType(type) ==
    CASE type = <<"IfcWall">> -> <<"wall">>
      [] type = <<"IfcDoor">> -> <<"door">>
      [] type = <<"IfcBeam">> -> <<"beam">>
      [] type = <<"IfcPile">> -> <<"pile">>
      [] type = <<"IfcBuildingStorey">> -> <<"buildingstorey">>

\* whether the loop body appends an element for the product
Extracted(product) ==
    /\ product.shape.kind = "verts"
    /\ IsValidGeometry(CalculateBoundingBox(product.shape.verts))

ElementData(product) ==
    [type |-> LowerType(product.type),
     id |-> product.global_id,
     boundingBox |-> CalculateBoundingBox(product.shape.verts),
     ifcType |-> product.type]

\* the state of the loop of extract_simple_geometry before its first turn
NoneExtracted ==
    [elements |-> <<>>, total_processed |-> 0, element_type_counts |-> <<>>]

ExtractOneCountedFirst(acc, product) ==
    IF Extracted(product)
    THEN [elements |-> Append(acc.elements, ElementData(product)),
          total_processed |-> acc.total_processed + 1,
          element_type_counts |->
              DictPut(acc.element_type_counts, product.type,
                      DictGetOr(acc.element_type_counts, product.type, 0) + 1)]
    ELSE [acc EXCEPT !.total_processed = acc.total_processed + 1]

\* one turn of the loop: a product whose shape raises, is empty or has an
\* invalid box leaves elements, total_processed and element_type_counts
\* as they are
ExtractOne(acc, product) ==
    IF Extracted(product)
    THEN [elements |-> Append(acc.elements, ElementData(product)),
          total_processed |-> acc.total_processed + 1,
          element_type_counts |->
              DictPut(acc.element_type_counts, product.type,
                      DictGetOr(acc.element_type_counts, product.type, 0) + 1)]
    ELSE acc

RECURSIVE ExtractLoop(_)
\* the loop over products_with_geometry
ExtractLoop(products) ==
    IF Len(products) = 0 THEN NoneExtracted
    ELSE LET n == Len(products)
         IN ExtractOne(ExtractLoop(SubSeq(products, 1, n - 1)), products[n])

ExtractSimpleGeometry(src) ==
    LET all_products == AllProducts(src)
        products_with_geometry ==
            SelectSeq2(all_products,
                       [i \in 1..Len(all_products) |->
                            all_products[i].representation])
        after == ExtractLoop(products_with_geometry)
    IN [elements |-> after.elements,
        totalElements |-> Len(after.elements),
        metadata |-> [totalInFile |-> Len(all_products),
                      withGeometry |-> Len(products_with_geometry),
                      processed |-> after.total_processed,
                      elementTypes |-> after.element_type_counts]]

-----------------------------------------------------------------------------
(* main.py: the merge stage *)

RECURSIVE ElementMapping(_)
\* element_mapping: global_id -> {element_key, level_id}, of the elements
\* with a non-empty global_id
ElementMapping(elements) ==
    IF Len(elements) = 0 THEN <<>>
    ELSE LET n == Len(elements)
             before == ElementMapping(SubSeq(elements, 1, n - 1))
         IN IF Len(elements[n].global_id) > 0
            THEN DictPut(before, elements[n].global_id,
                         [element_key |-> elements[n].element_key,
                          level_id |-> elements[n].level_id])
            ELSE before

EnhanceElementAllDefault(geom_element, element_mapping) ==
    [type |-> geom_element.type, id |-> geom_element.id,
     boundingBox |-> geom_element.boundingBox,
     ifcType |-> geom_element.ifcType,
     element_key |-> geom_element.ifcType \o <<"_", "default">>,
     level_id |-> None]

\* a geometry element with element_key and level_id added
EnhanceElement(geom_element, element_mapping) ==
    LET found == DictHas(element_mapping, geom_element.id)
    IN [type |-> geom_element.type, id |-> geom_element.id,
        boundingBox |-> geom_element.boundingBox,
        ifcType |-> geom_element.ifcType,
        element_key |-> IF found
                        THEN DictGet(element_mapping, geom_element.id).element_key
                        ELSE geom_element.ifcType \o <<"_", "default">>,
        level_id |-> IF found
                     THEN DictGet(element_mapping, geom_element.id).level_id
                     ELSE None]

EnhanceGeometryWithElementData(geometry_data, elements) ==
    [geometry_data EXCEPT
        !.elements = [i \in 1..Len(geometry_data.elements) |->
                        EnhanceElement(geometry_data.elements[i],
                                       ElementMapping(elements))]]

-----------------------------------------------------------------------------
(* An upload of a file: process_ifc_file creates a processor, fills the   *)
(* level cache, processes the relevant elements one by one and renders    *)
(* the quantity table; the handler then extracts the geometry and merges  *)
(* the two.  The same file may be uploaded again.                         *)

PipeInit ==
    /\ source \in Sources
    /\ levels_data = <<>>
    /\ quantity_table = <<>>
    /\ pc = "request" /\ idx = 0 /\ processed_elements = <<>>
    /\ result = <<>> /\ prev_result = <<>> /\ runs = 0
    /\ AggIdle /\ ClsIdle /\ KeyIdle /\ BoxIdle /\ UpIdle

\* processor = IFCProcessor(ifc_path)
PipeOpen ==
    /\ pc = "request"
    /\ levels_data' = <<>>
    /\ quantity_table' = InitQuantityTable(quantity_table)
    /\ runs' = runs + 1
    /\ pc' = "opened"
    /\ UNCHANGED <<source, idx, processed_elements, result, prev_result,
                   aggVars, clsVars, keyVars, boxVars,
                   upVars>>

\* levels = processor.get_building_levels()
PipeGetBuildingLevels ==
    /\ pc = "opened"
    /\ levels_data' = DictOfLevels(GetBuildingLevels(source.storeys))
    /\ idx' = 1
    /\ processed_elements' = <<>>
    /\ pc' = "elements"
    /\ UNCHANGED <<source, quantity_table, result, prev_result, runs,
                   aggVars, clsVars, keyVars, boxVars,
                   upVars>>

\* one turn of the loop of process_elements
PipeProcessSingleElement ==
    /\ pc = "elements"
    /\ idx <= Len(RelevantElements(AllProducts(source)))
    /\ LET product == RelevantElements(AllProducts(source))[idx]
       IN /\ quantity_table' = QuantityTableAfter(quantity_table, levels_data, product)
          /\ processed_elements' = ElementsAfter(processed_elements, levels_data, product)
    /\ idx' = idx + 1
    /\ UNCHANGED <<source, levels_data, pc, result, prev_result, runs,
                   aggVars, clsVars, keyVars, boxVars,
                   upVars>>

\* the end of process_elements, generate_quantity_table_data and the
\* return of process_ifc_file
PipeReturn ==
    /\ pc = "elements"
    /\ idx > Len(RelevantElements(AllProducts(source)))
    /\ result' = [success |-> TRUE,
                  levels |-> GetBuildingLevels(source.storeys),
                  elements |-> processed_elements,
                  quantity_table |->
                      GenerateQuantityTableData(quantity_table, levels_data),
                  geometry |-> [elements_count |-> Len(processed_elements),
                                levels |-> GetBuildingLevels(source.storeys)]]
    /\ pc' = "processed"
    /\ UNCHANGED <<source, levels_data, quantity_table, idx,
                   processed_elements, prev_result, runs,
                   aggVars, clsVars, keyVars, boxVars,
                   upVars>>

\* extract_simple_geometry and _enhance_geometry_with_element_data
PipeGeometry ==
    /\ pc = "processed"
    /\ result' = [result EXCEPT
                    !.geometry =
                        EnhanceGeometryWithElementData(
                            ExtractSimpleGeometry(source), result.elements)]
    /\ pc' = "done"
    /\ UNCHANGED <<source, levels_data, quantity_table, idx,
                   processed_elements, prev_result, runs,
                   aggVars, clsVars, keyVars, boxVars,
                   upVars>>

\* the next upload of the same file
PipeAgain ==
    /\ pc = "done"
    /\ runs < MaxRuns
    /\ prev_result' = result
    /\ pc' = "request"
    /\ UNCHANGED <<source, levels_data, quantity_table, idx,
                   processed_elements, result, runs,
                   aggVars, clsVars, keyVars, boxVars,
                   upVars>>

PipeNext ==
    \/ PipeOpen
    \/ PipeGetBuildingLevels
    \/ PipeProcessSingleElement
    \/ PipeReturn
    \/ PipeGeometry
    \/ PipeAgain

SpecPipe == PipeInit /\ [][PipeNext]_vars

GeomElements == result.geometry.elements

\* C4: after the merge, a geometry record whose id is the global_id of an
\* element of the processing pipeline's output carries that element's
\* element_key and level_id; one whose id is not among them carries
\* "{ifcType}_default" and no level; and a record whose ifcType is not a
\* relevant type is of the second kind.
C4_Merge ==
    pc = "done" =>
        \A g \in 1..Len(GeomElements) :
            /\ \A e \in 1..Len(result.elements) :
                  result.elements[e].global_id = GeomElements[g].id
                    => /\ GeomElements[g].element_key = result.elements[e].element_key
                       /\ GeomElements[g].level_id = result.elements[e].level_id
            /\ (\A e \in 1..Len(result.elements) :
                    result.elements[e].global_id # GeomElements[g].id)
                 => /\ GeomElements[g].element_key
                          = GeomElements[g].ifcType \o <<"_", "default">>
                    /\ GeomElements[g].level_id = None
            /\ GeomElements[g].ifcType[1] \notin RELEVANT_ELEMENT_TYPES
                 => /\ GeomElements[g].element_key
                          = GeomElements[g].ifcType \o <<"_", "default">>
                    /\ GeomElements[g].level_id = None

\* C4's case: the merged geometry holds a record of a type that is not
\* relevant, with the default key and no level although the product has
\* dimensions and a placement, and a record of a processed element with that
\* element's key, which is not the default key, and its level.
C4_Witness ==
    /\ pc = "done"
    /\ \E g \in 1..Len(GeomElements), h \in 1..Len(GeomElements) :
          /\ GeomElements[g].ifcType = <<"IfcPile">>
          /\ GeomElements[g].element_key = <<"IfcPile", "_", "default">>
          /\ GeomElements[g].level_id = None
          /\ GeomElements[h].ifcType = <<"IfcWall">>
          /\ GeomElements[h].element_key # <<"IfcWall", "_", "default">>
          /\ GeomElements[h].level_id # None
          /\ \E e \in 1..Len(result.elements) :
                /\ result.elements[e].global_id = GeomElements[h].id
                /\ result.elements[e].element_key = GeomElements[h].element_key

TableRows(res) == res.quantity_table.table_data

\* C9: a second run over the same file gives the quantity table of the
\* first: the same rows, with the same element_key, total_quantity and
\* level_quantities, in element_type order both times.
C9_Idempotence ==
    (pc \in {"processed", "done"} /\ runs >= 2) =>
        /\ {[element_key |-> TableRows(result)[r].element_key,
             total_quantity |-> TableRows(result)[r].total_quantity,
             level_quantities |-> TableRows(result)[r].level_quantities] :
                r \in 1..Len(TableRows(result))}
           = {[element_key |-> TableRows(prev_result)[r].element_key,
               total_quantity |-> TableRows(prev_result)[r].total_quantity,
               level_quantities |-> TableRows(prev_result)[r].level_quantities] :
                r \in 1..Len(TableRows(prev_result))}
        /\ Len(TableRows(result)) = Len(TableRows(prev_result))
        /\ result.quantity_table = prev_result.quantity_table
        /\ \A res \in {result, prev_result} :
              \A r \in 1..(Len(TableRows(res)) - 1) :
                  StrRank(TableRows(res)[r].element_type)
                      <= StrRank(TableRows(res)[r + 1].element_type)

\* C9's case: the second run over a file with elements of two types has
\* returned, its table holding the two rows of the first run's table, one
\* of them with a count at a level.
C9_Witness ==
    /\ pc = "done"
    /\ runs = 2
    /\ Len(TableRows(result)) = 2
    /\ TableRows(result)[1].element_type # TableRows(result)[2].element_type
    /\ \E r \in 1..2 : TableRows(result)[r].total_quantity = 1
                       /\ Len(TableRows(result)[r].level_quantities) = 1
    /\ TableRows(prev_result) = TableRows(result)

RECURSIVE SumTotals(_)
SumTotals(rows) ==
    IF Len(rows) = 0 THEN 0
    ELSE rows[1].total_quantity + SumTotals(Tail(rows))

ElementsWith(key) ==
    {e \in 1..Len(result.elements) : result.elements[e].element_key = key}

ElementsAt(key, level) ==
    {e \in ElementsWith(key) : result.elements[e].level_id = level}

\* the relevant elements of the file for which processing does not raise
Survivors ==
    LET relevant == RelevantElements(AllProducts(source))
    IN SelectSeq2(relevant, [i \in 1..Len(relevant) |-> ~relevant[i].fails])

\* C13: an element whose processing raises is the only one skipped, and
\* the run returns; the table of the run holds one row per element_key of
\* the returned elements, with total_quantity the number of returned
\* elements of that key and level_quantities[L] the number of those at
\* level L, and the total_quantity values sum to the number of returned
\* elements.
C13_FailureIsolation ==
    pc \in {"processed", "done"} =>
        /\ result.success
        /\ [e \in 1..Len(result.elements) |-> result.elements[e].id]
              = [i \in 1..Len(Survivors) |-> Survivors[i].id]
        /\ {TableRows(result)[r].element_key : r \in 1..Len(TableRows(result))}
              = {result.elements[e].element_key : e \in 1..Len(result.elements)}
        /\ \A r \in 1..Len(TableRows(result)), q \in 1..Len(TableRows(result)) :
              TableRows(result)[r].element_key = TableRows(result)[q].element_key
                => r = q
        /\ \A r \in 1..Len(TableRows(result)) :
              LET row == TableRows(result)[r]
              IN /\ row.total_quantity = Cardinality(ElementsWith(row.element_key))
                 /\ \A L \in StoreyIds :
                      LET n == Cardinality(ElementsAt(row.element_key, L))
                      IN IF n = 0 THEN ~DictHas(row.level_quantities, L)
                         ELSE /\ DictHas(row.level_quantities, L)
                              /\ DictGet(row.level_quantities, L) = n
                 /\ \A e \in 1..Len(row.level_quantities) :
                      row.level_quantities[e].k \in StoreyIds
        /\ SumTotals(TableRows(result)) = Len(result.elements)

\* C13's case: the first relevant element of the file raises in
\* processing and the second does not; the run returned the second alone,
\* and the table counts one element.
C13_Witness ==
    /\ pc = "done"
    /\ runs = 1
    /\ Len(RelevantElements(AllProducts(source))) = 2
    /\ RelevantElements(AllProducts(source))[1].fails
    /\ Len(result.elements) = 1
    /\ result.elements[1].id = RelevantElements(AllProducts(source))[2].id
    /\ SumTotals(TableRows(result)) = 1

Geometry == result.geometry

RECURSIVE SumValues(_)
\* the sum of the values of a dict
SumValues(dict) ==
    IF Len(dict) = 0 THEN 0 ELSE dict[1].v + SumValues(Tail(dict))

\* the products of the file with a representation whose shape the kernel
\* makes, with vertices or with none
Shaped ==
    LET all_products == AllProducts(source)
    IN SelectSeq2(all_products,
                  [i \in 1..Len(all_products) |->
                       /\ all_products[i].representation
                       /\ all_products[i].shape.kind = "verts"])

\* C14: a product whose shape raises or is empty is the only one skipped;
\* in the payload totalElements, metadata.processed, the length of elements
\* and the sum of the per-type histogram are one number; processed <=
\* withGeometry <= totalInFile; and the ids of the records are the global
\* ids of the products that were not skipped, each once, in the order of
\* the file.
C14_ExtractionCounts ==
    pc = "done" =>
        /\ Geometry.totalElements = Geometry.metadata.processed
        /\ Geometry.totalElements = Len(Geometry.elements)
        /\ Geometry.totalElements = SumValues(Geometry.metadata.elementTypes)
        /\ Geometry.metadata.processed <= Geometry.metadata.withGeometry
        /\ Geometry.metadata.withGeometry <= Geometry.metadata.totalInFile
        /\ Geometry.metadata.totalInFile = Len(AllProducts(source))
        /\ [g \in 1..Len(Geometry.elements) |-> Geometry.elements[g].id]
              = [i \in 1..Len(Shaped) |-> Shaped[i].global_id]
        /\ \A g \in 1..Len(Geometry.elements), h \in 1..Len(Geometry.elements) :
              Geometry.elements[g].id = Geometry.elements[h].id => g = h

\* C14's case: the shape of the first product of the file raises and the
\* second product is extracted; the payload holds the second alone, and
\* the file has more products than products with a representation.
C14_Witness ==
    /\ pc = "done"
    /\ Len(source.products) = 2
    /\ source.products[1].representation
    /\ source.products[1].shape.kind = "raises"
    /\ Len(Geometry.elements) = 1
    /\ Geometry.elements[1].id = source.products[2].global_id
    /\ Geometry.metadata.processed = 1
    /\ Geometry.metadata.withGeometry = 2
    /\ Geometry.metadata.totalInFile > 2

-----------------------------------------------------------------------------
(* main.py: upload_and_process_ifc under concurrent requests.  A handler  *)
(* is a coroutine of the one event loop: it gives the loop away at each   *)
(* await and nowhere else.  aiofiles runs open and write in a worker      *)
(* thread, at any moment, also while another handler runs on the loop.    *)
(* From process_ifc_file to the end of the finally block there is no      *)
(* await.  The close of the handle changes no file and is not a step.     *)

\* the requests the server works on at a time
Slots == {1, 2}

ALLOWED_EXTENSIONS == {<<"ifc">>}

\* the size limit, in tokens of content
MAX_FILE_SIZE == 2

\* str.lower() of a token
LowerToken(token) ==
    CASE token = "IFC" -> "ifc"
      [] token = "TXT" -> "txt"
      [] OTHER -> token

Lower(str) == [i \in 1..Len(str) |-> LowerToken(str[i])]

RECURSIVE RSplitDotLast(_)
\* filename.rsplit('.', 1)[1], of a filename with a "."
RSplitDotLast(filename) ==
    IF filename[Len(filename)] = "." THEN <<>>
    ELSE RSplitDotLast(SubSeq(filename, 1, Len(filename) - 1))
            \o <<filename[Len(filename)]>>

IsAllowedFile(filename) ==
    /\ "." \in Range(filename)
    /\ Lower(RSplitDotLast(filename)) \in ALLOWED_EXTENSIONS

\* the filenames of the uploads: two that are allowed, one with another
\* extension, one without a ".", and the empty one
Filenames ==
    {<<"a", ".", "ifc">>, <<"b", ".", "IFC">>, <<"a", ".", "txt">>,
     <<"ifc">>, <<>>}

\* os.path.join(UPLOAD_FOLDER, f"temp_{file.filename}")
TempPath(filename) == <<"uploads", "/", "temp", "_">> \o filename

Paths == {TempPath(filename) : filename \in Filenames}

\* the contents of the uploads: two IFC files, one that does not parse, and
\* one above the size limit
DocA == <<"A1", "A2">>
DocB == <<"B1">>
DocBad == <<"X1">>
DocBig == <<"A1", "A2", "A3">>

Contents == {DocA, DocB, DocBad, DocBig}

\* the model DocA holds: two storeys, a wall in the first and a pile
SourceA ==
    CHOOSE src \in Sources :
        /\ Len(src.storeys) = 2
        /\ src.storeys[1].placement = [kind |-> "matrix", z |-> 0]
        /\ src.storeys[2].placement = [kind |-> "matrix", z |-> 30]
        /\ Len(src.products) = 2
        /\ src.products[1].type = <<"IfcWall">>
        /\ src.products[1].representation
        /\ src.products[1].psets = MixedProperties
        /\ ~src.products[1].fails
        /\ src.products[2].type = <<"IfcPile">>

\* the model DocB holds: no storey, and a door
SourceB ==
    CHOOSE src \in Sources :
        /\ Len(src.storeys) = 0
        /\ Len(src.products) = 1
        /\ src.products[1].type = <<"IfcDoor">>
        /\ src.products[1].shape.kind = "verts"

NoSource == [storeys |-> <<>>, products |-> <<>>]

\* ifcopenshell.open of a file with this content: any other content, the
\* empty one included, does not parse
IfcOpen(data) ==
    IF data = DocA THEN [ok |-> TRUE, src |-> SourceA]
    ELSE IF data = DocB THEN [ok |-> TRUE, src |-> SourceB]
    ELSE [ok |-> FALSE, src |-> NoSource]

NoFile == [exists |-> FALSE, inode |-> 0, data |-> <<>>]

\* what a reader of a path that does not exist gets
Missing == <<"ENOENT">>

\* what a request that has not read holds as read
Unread == <<"unread">>

\* open(path, 'wb'): an existing file is truncated and keeps its inode, a
\* new one gets the inode named
OpenWb(fs, path, inode) ==
    [fs EXCEPT ![path] =
        IF @.exists THEN [@ EXCEPT !.data = <<>>]
        ELSE [exists |-> TRUE, inode |-> inode, data |-> <<>>]]

\* write(content) through a handle at offset 0 of the inode: a file that
\* was unlinked, or replaced, is not the one written
Write(fs, path, inode, content) ==
    IF fs[path].exists /\ fs[path].inode = inode
    THEN [fs EXCEPT ![path].data =
              content \o SubSeq(@, Len(content) + 1, Len(@))]
    ELSE fs

ReadFile(fs, path) == IF fs[path].exists THEN fs[path].data ELSE Missing

CleanUpOnSuccessOnly(fs, path, status_code) ==
    IF fs[path].exists /\ status_code = 200
    THEN [fs EXCEPT ![path] = NoFile]
    ELSE fs

\* the finally block: whatever the outcome, an existing file is removed
CleanUp(fs, path, status_code) ==
    IF fs[path].exists THEN [fs EXCEPT ![path] = NoFile] ELSE fs

RECURSIVE ProcessElements(_, _)
\* process_elements: the returned list and the table it leaves
ProcessElements(ld, relevant_elements) ==
    IF Len(relevant_elements) = 0
    THEN [elements |-> <<>>, quantity_table |-> InitQuantityTable(<<>>)]
    ELSE LET n == Len(relevant_elements)
             before == ProcessElements(ld, SubSeq(relevant_elements, 1, n - 1))
         IN [elements |->
                 ElementsAfter(before.elements, ld, relevant_elements[n]),
             quantity_table |->
                 QuantityTableAfter(before.quantity_table, ld,
                                    relevant_elements[n])]

\* process_ifc_file of a path holding this content
ProcessIfcFile(data) ==
    IF ~IfcOpen(data).ok
    THEN [success |-> FALSE, error |-> <<"open", ":", "no", "IFC">>]
    ELSE LET src == IfcOpen(data).src
             levels == GetBuildingLevels(src.storeys)
             run == ProcessElements(DictOfLevels(levels),
                                    RelevantElements(AllProducts(src)))
         IN [success |-> TRUE,
             levels |-> levels,
             elements |-> run.elements,
             quantity_table |->
                 GenerateQuantityTableData(run.quantity_table,
                                           DictOfLevels(levels)),
             geometry |-> [elements_count |-> Len(run.elements),
                           levels |-> levels]]

ResultFailedNever(res) == FALSE

\* not result.get('success', False)
ResultFailed(res) == ~("success" \in DOMAIN res /\ res.success)

\* result.get('elements', [])
GetElements(res) == IF "elements" \in DOMAIN res THEN res.elements ELSE <<>>

\* the value the handler assigns to result['geometry']: the merged
\* geometry, or the empty payload when the extractor cannot open the file
GeometryOf(data, elements) ==
    IF ~IfcOpen(data).ok
    THEN [elements |-> <<>>, totalElements |-> 0]
    ELSE EnhanceGeometryWithElementData(
             ExtractSimpleGeometry(IfcOpen(data).src), elements)

\* result['geometry'] = geometry
SetGeometry(res, geometry) ==
    [field \in DOMAIN res \cup {"geometry"} |->
        IF field = "geometry" THEN geometry ELSE res[field]]

\* a slot without a request
NoRequest ==
    [pc |-> "idle", no |-> 0, filename |-> <<>>, content |-> <<>>,
     handle |-> 0, status_code |-> 0, responses |-> 0, result |-> <<>>,
     read_processing |-> Unread, read_geometry |-> Unread,
     geometry_ran |-> FALSE, removed_foreign |-> FALSE,
     overwrote_foreign |-> FALSE]

\* the request the handler starts with: the checks before the try block
\* answer 400 or 413, or the open of the temporary file is handed to a
\* worker thread
Received(no, filename, content) ==
    LET rejected == IF Len(filename) = 0 \/ ~IsAllowedFile(filename) THEN 400
                    ELSE IF Len(content) > MAX_FILE_SIZE THEN 413
                    ELSE 0
    IN [NoRequest EXCEPT
           !.no = no, !.filename = filename, !.content = content,
           !.pc = IF rejected = 0 THEN "open_pending" ELSE "exited",
           !.status_code = rejected,
           !.responses = IF rejected = 0 THEN 0 ELSE 1]

\* request q is in flight on this path, has written its file and has not
\* finished processing it
HoldsWritten(q, path) ==
    /\ requests[q].pc \in {"written", "processed"}
    /\ TempPath(requests[q].filename) = path

OthersHoldWritten(r, path) ==
    \E q \in Slots \ {r} : HoldsWritten(q, path)

UploadInit ==
    /\ files = [path \in Paths |-> NoFile]
    /\ requests = [r \in Slots |-> NoRequest]
    /\ loop = 0
    /\ uploads = 0
    /\ source = NoSource
    /\ levels_data = <<>>
    /\ quantity_table = <<>>
    /\ Idle /\ AggIdle /\ ClsIdle /\ KeyIdle /\ BoxIdle

\* a request arrives: the handler runs to its first await on the file
UpReceive(r) ==
    /\ loop = 0
    /\ requests[r].pc \in {"idle", "exited"}
    /\ uploads < MaxUploads
    /\ \E filename \in Filenames, content \in Contents :
          requests' = [requests EXCEPT
                          ![r] = Received(uploads + 1, filename, content)]
    /\ uploads' = uploads + 1
    /\ UNCHANGED <<files, loop, procVars>>

\* the worker thread opens the temporary file, or fails to
UpThreadOpen(r) ==
    /\ requests[r].pc = "open_pending"
    /\ LET path == TempPath(requests[r].filename)
       IN \/ /\ files' = OpenWb(files, path, requests[r].no)
             /\ requests' = [requests EXCEPT
                    ![r].pc = "opened",
                    ![r].handle = files'[path].inode,
                    ![r].overwrote_foreign =
                        files[path].exists /\ OthersHoldWritten(r, path)]
          \/ /\ requests' = [requests EXCEPT ![r].pc = "raised"]
             /\ UNCHANGED files
    /\ UNCHANGED <<loop, uploads, procVars>>

\* the handler resumes in the async with block and hands the write to a
\* worker thread
UpAwaitWrite(r) ==
    /\ loop = 0
    /\ requests[r].pc = "opened"
    /\ requests' = [requests EXCEPT ![r].pc = "write_pending"]
    /\ UNCHANGED <<files, loop, uploads, procVars>>

\* the worker thread writes the content, or fails to
UpThreadWrite(r) ==
    /\ requests[r].pc = "write_pending"
    /\ LET path == TempPath(requests[r].filename)
       IN \/ /\ files' = Write(files, path, requests[r].handle,
                               requests[r].content)
             /\ requests' = [requests EXCEPT
                    ![r].pc = "written",
                    ![r].overwrote_foreign =
                        \/ @
                        \/ files' # files /\ OthersHoldWritten(r, path)]
          \/ /\ requests' = [requests EXCEPT ![r].pc = "raised"]
             /\ UNCHANGED files
    /\ UNCHANGED <<loop, uploads, procVars>>

\* the handler resumes after the async with block: process_ifc_file and
\* the test of its result
UpProcess(r) ==
    /\ loop = 0
    /\ requests[r].pc = "written"
    /\ LET data == ReadFile(files, TempPath(requests[r].filename))
           res == ProcessIfcFile(data)
       IN requests' = [requests EXCEPT
              ![r].result = res,
              ![r].read_processing = data,
              ![r].pc = IF ResultFailed(res) THEN "raised" ELSE "processed",
              ![r].status_code = IF ResultFailed(res) THEN 500 ELSE 0]
    /\ loop' = r
    /\ UNCHANGED <<files, uploads, procVars>>

\* the geometry extractor opens the file again; the merge
UpGeometry(r) ==
    /\ loop = r
    /\ requests[r].pc = "processed"
    /\ LET data == ReadFile(files, TempPath(requests[r].filename))
       IN requests' = [requests EXCEPT
              ![r].result =
                  SetGeometry(@, GeometryOf(data, GetElements(@))),
              ![r].read_geometry = data,
              ![r].geometry_ran = TRUE,
              ![r].pc = "returning",
              ![r].status_code = 200]
    /\ UNCHANGED <<files, loop, uploads, procVars>>

\* the except branches, the finally block and the one response
UpExit(r) ==
    /\ requests[r].pc \in {"raised", "returning"}
    /\ loop \in {0, r}
    /\ LET path == TempPath(requests[r].filename)
           status_code == IF requests[r].pc = "returning" THEN 200 ELSE 500
       IN /\ files' = CleanUp(files, path, status_code)
          /\ requests' = [requests EXCEPT
                 ![r].pc = "exited",
                 ![r].status_code = status_code,
                 ![r].responses = @ + 1,
                 ![r].removed_foreign =
                     files' # files /\ OthersHoldWritten(r, path)]
    /\ loop' = 0
    /\ UNCHANGED <<uploads, procVars>>

UploadNext ==
    \E r \in Slots :
        \/ UpReceive(r)
        \/ UpThreadOpen(r)
        \/ UpAwaitWrite(r)
        \/ UpThreadWrite(r)
        \/ UpProcess(r)
        \/ UpGeometry(r)
        \/ UpExit(r)

SpecUpload == UploadInit /\ [][UploadNext]_vars

InFlight(r) == requests[r].pc \notin {"idle", "exited"}

Exited(r) == requests[r].pc = "exited"

C12_FatalOpenError ==
    \A r \in Slots :
        /\ requests[r].read_processing # Unread
        /\ ~IfcOpen(requests[r].read_processing).ok
        => /\ DOMAIN requests[r].result = {"success", "error"}
           /\ requests[r].result.success = FALSE
           /\ Len(requests[r].result.error) > 0
           /\ ~requests[r].geometry_ran
           /\ requests[r].read_geometry = Unread
           /\ requests[r].pc \in {"raised", "exited"}
           /\ requests[r].status_code = 500
           /\ requests[r].responses = IF Exited(r) THEN 1 ELSE 0

\* C12's case: a request uploaded content that does not parse, processing
\* read that content, and the request has ended with its one response.
C12_Witness ==
    \E r \in Slots :
        /\ Exited(r)
        /\ requests[r].content = DocBad
        /\ requests[r].read_processing = DocBad
        /\ requests[r].result = [success |-> FALSE,
                                 error |-> <<"open", ":", "no", "IFC">>]
        /\ requests[r].responses = 1

\* C15: with two requests in flight, same filename or not, what the
\* processing pipeline and the geometry extractor of a request read is the
\* content the request uploaded, and no request removes, truncates or
\* overwrites a temporary file that another request in flight has written
\* and not finished processing.
C15_RequestIsolation ==
    \A r \in Slots :
        /\ requests[r].read_processing \in {Unread, requests[r].content}
        /\ requests[r].read_geometry \in {Unread, requests[r].content}
        /\ ~requests[r].removed_foreign
        /\ ~requests[r].overwrote_foreign

=============================================================================
